---- MODULE Spec2Model ----
(***************************************************************************)
(* Model of linkedin_research.py: the prompt builder, the response         *)
(* extractor (extract_json_array) and the submit handler that calls the    *)
(* completion API.                                                         *)
(*                                                                         *)
(* Text is modelled at character level: a Python str is a sequence of      *)
(* one-character strings.                                                  *)
(***************************************************************************)
EXTENDS Integers, Sequences, FiniteSets, TLC

\* ------------------------------------------------------------------------
\* Bounds of the model
\* ------------------------------------------------------------------------

\* Largest number of elements of a generated JSON array.
MaxItems == 2

\* ------------------------------------------------------------------------
\* Python str helpers
\* ------------------------------------------------------------------------

\* Characters str.strip() removes (the ones the model's alphabet holds).
WhiteSpace == {" ", "\n", "\t", "\r"}

\* Characters json's scanner skips between tokens: [ \t\n\r]*.
JsonWs == {" ", "\t", "\n", "\r"}

Digits == {"0", "1", "2", "3", "4", "5", "6", "7", "8", "9"}

\* The element of a singleton. Only({f(v) : v \in {e}}) is f of the local
\* variable v, assigned e once.
Only(S) == CHOOSE r \in S : TRUE

RECURSIVE FlattenRange(_, _, _)
\* "".join(parts[lo-1:hi]), by halves.
FlattenRange(parts, lo, hi) ==
    IF lo > hi THEN <<>>
    ELSE IF lo = hi THEN parts[lo]
    ELSE LET mid == (lo + hi) \div 2
         IN FlattenRange(parts, lo, mid) \o FlattenRange(parts, mid + 1, hi)

\* "".join(parts)
Flatten(parts) == FlattenRange(parts, 1, Len(parts))

\* s.startswith(p, i-1)
StartsAt(s, i, p) == /\ i + Len(p) - 1 <= Len(s)
                     /\ \A k \in 1..Len(p) : s[i + k - 1] = p[k]

\* p in s
Contains(s, p) == \E i \in 1..(Len(s) + 1) : StartsAt(s, i, p)

\* The 1-based index of the first c in s, 0 when there is none.
FirstIdx(s, c) == IF \E i \in 1..Len(s) : s[i] = c
                  THEN CHOOSE i \in 1..Len(s) : s[i] = c /\ \A j \in 1..(i - 1) : s[j] # c
                  ELSE 0

\* The 1-based index of the last c in s, 0 when there is none.
LastIdx(s, c) == IF \E i \in 1..Len(s) : s[i] = c
                 THEN CHOOSE i \in 1..Len(s) : s[i] = c /\ \A j \in (i + 1)..Len(s) : s[j] # c
                 ELSE 0

\* s.strip()
Strip(s) == LET keep == {i \in 1..Len(s) : s[i] \notin WhiteSpace}
            IN IF keep = {} THEN <<>>
               ELSE LET lo == CHOOSE i \in keep : \A j \in keep : i <= j
                        hi == CHOOSE i \in keep : \A j \in keep : j <= i
                    IN SubSeq(s, lo, hi)

\* s.split(c)[0]
SplitHead(s, c) == LET i == FirstIdx(s, c) IN IF i = 0 THEN s ELSE SubSeq(s, 1, i - 1)

\* ------------------------------------------------------------------------
\* JSON values, as json.loads builds them
\* ------------------------------------------------------------------------
\* One record shape for every value: t is the Python type, s the text of a
\* str or of an int, keys/kids the members of a dict (in order, duplicates
\* already resolved) or the elements of a list.

JStr(s) == [t |-> "str", s |-> s, keys |-> <<>>, kids |-> <<>>]
JNum(s) == [t |-> "int", s |-> s, keys |-> <<>>, kids |-> <<>>]
JTrue == [t |-> "bool", s |-> <<"T", "r", "u", "e">>, keys |-> <<>>, kids |-> <<>>]
JFalse == [t |-> "bool", s |-> <<"F", "a", "l", "s", "e">>, keys |-> <<>>, kids |-> <<>>]
JNull == [t |-> "None", s |-> <<"N", "o", "n", "e">>, keys |-> <<>>, kids |-> <<>>]
JArr(kids) == [t |-> "list", s |-> <<>>, keys |-> <<>>, kids |-> kids]
JObj(keys, kids) == [t |-> "dict", s |-> <<>>, keys |-> keys, kids |-> kids]

\* d[k] = v on a dict: a repeated key keeps its place and takes the new value.
DictPut(d, k, v) ==
    IF \E i \in 1..Len(d.keys) : d.keys[i] = k
    THEN LET i == CHOOSE j \in 1..Len(d.keys) : d.keys[j] = k
         IN JObj(d.keys, [d.kids EXCEPT ![i] = v])
    ELSE JObj(Append(d.keys, k), Append(d.kids, v))

\* d.get(k, default)
DictGet(d, k, default) ==
    IF \E i \in 1..Len(d.keys) : d.keys[i] = k
    THEN d.kids[CHOOSE i \in 1..Len(d.keys) : d.keys[i] = k]
    ELSE default

\* ------------------------------------------------------------------------
\* json.loads
\* ------------------------------------------------------------------------
\* A parse step returns [ok, val, pos]: whether it succeeded, the value and
\* the index of the first character after it.

Fail == [ok |-> FALSE, val |-> JNull, pos |-> 0]
Ok(v, p) == [ok |-> TRUE, val |-> v, pos |-> p]

RECURSIVE SkipWs(_, _)
SkipWs(s, i) == IF i <= Len(s) /\ s[i] \in JsonWs THEN SkipWs(s, i + 1) ELSE i

\* The character an escape \c stands for (the escapes of the model's alphabet).
Unescape(c) == CASE c = "\"" -> "\""
                 [] c = "\\" -> "\\"
                 [] c = "/" -> "/"
                 [] c = "n" -> "\n"
                 [] c = "t" -> "\t"
                 [] c = "r" -> "\r"
                 [] OTHER -> ""

\* The number of backslashes in a row that end right before s[k], none of
\* them before s[i].
BackslashRun(s, i, k) ==
    CHOOSE d \in 0..(k - i) :
        /\ d = k - i \/ s[k - 1 - d] # "\\"
        /\ \A e \in 0..(d - 1) : s[k - 1 - e] = "\\"

\* py_scanstring (strict): s[i] is the first character after the opening
\* quote. The string ends at the first quote no backslash escapes.
ScanString(s, i) ==
    LET quotes == {k \in i..Len(s) : s[k] = "\"" /\ BackslashRun(s, i, k) % 2 = 0}
    IN IF quotes = {} THEN Fail
       ELSE LET end == CHOOSE k \in quotes : \A j \in quotes : k <= j
                escaped == {k \in i..(end - 1) : BackslashRun(s, i, k) % 2 = 1}
                piece == [n \in 1..(end - i) |->
                             LET k == i + n - 1
                             IN IF k \in escaped THEN <<Unescape(s[k])>>
                                ELSE IF s[k] = "\\" THEN <<>>
                                ELSE <<s[k]>>]
            IN IF \/ \E k \in escaped : Unescape(s[k]) = ""
                  \/ \E k \in i..(end - 1) : k \notin escaped /\ s[k] \in {"\n", "\t", "\r"}
               THEN Fail
               ELSE Ok(JStr(Flatten(piece)), end + 1)

RECURSIVE ScanDigits(_, _)
ScanDigits(s, i) == IF i <= Len(s) /\ s[i] \in Digits THEN ScanDigits(s, i + 1) ELSE i

\* NUMBER_RE: -?(0|[1-9][0-9]*), an int (the alphabet has no "." and no exponent).
ScanNumber(s, i) ==
    LET d == IF i <= Len(s) /\ s[i] = "-" THEN i + 1 ELSE i
    IN IF d > Len(s) \/ s[d] \notin Digits THEN Fail
       ELSE LET e == IF s[d] = "0" THEN d + 1 ELSE ScanDigits(s, d)
                txt == SubSeq(s, i, e - 1)
            IN Ok(JNum(IF txt = <<"-", "0">> THEN <<"0">> ELSE txt), e)

RECURSIVE ScanValue(_, _)
RECURSIVE ScanArray(_, _, _)
RECURSIVE ScanObject(_, _, _)
RECURSIVE ScanObjectValue(_, _, _)
RECURSIVE ScanObjectNext(_, _, _, _)

\* JSONArray after an element v: "]" ends the array, "," goes on to the next
\* element.
ScanArray(s, v, kids) ==
    IF ~v.ok THEN Fail
    ELSE Only({ IF j > Len(s) THEN Fail
                ELSE IF s[j] = "]" THEN Ok(JArr(Append(kids, v.val)), j + 1)
                ELSE IF s[j] # "," THEN Fail
                ELSE ScanArray(s, ScanValue(s, SkipWs(s, j + 1)), Append(kids, v.val))
                : j \in {SkipWs(s, v.pos)} })

\* JSONObject after a member's key k and value v: "}" ends the object, ","
\* goes on to the next member.
ScanObjectNext(s, d, k, v) ==
    IF ~v.ok THEN Fail
    ELSE Only({ IF e > Len(s) THEN Fail
                ELSE IF s[e] = "}" THEN Ok(DictPut(d, k.val.s, v.val), e + 1)
                ELSE IF s[e] # "," THEN Fail
                ELSE ScanObject(s, SkipWs(s, e + 1), DictPut(d, k.val.s, v.val))
                : e \in {SkipWs(s, v.pos)} })

\* JSONObject after a member's key k: the colon and the value.
ScanObjectValue(s, d, k) ==
    IF ~k.ok THEN Fail
    ELSE Only({ IF c > Len(s) \/ s[c] # ":" THEN Fail
                ELSE ScanObjectNext(s, d, k, ScanValue(s, SkipWs(s, c + 1)))
                : c \in {SkipWs(s, k.pos)} })

\* JSONObject: s[i] is where a member's key has to open.
ScanObject(s, i, d) ==
    IF i > Len(s) \/ s[i] # "\"" THEN Fail
    ELSE ScanObjectValue(s, d, ScanString(s, i + 1))

\* scanner.py_make_scanner._scan_once
ScanValue(s, i) ==
    IF i > Len(s) THEN Fail
    ELSE IF s[i] = "\"" THEN ScanString(s, i + 1)
    ELSE IF s[i] = "{"
         THEN Only({ IF j <= Len(s) /\ s[j] = "}" THEN Ok(JObj(<<>>, <<>>), j + 1)
                     ELSE ScanObject(s, j, JObj(<<>>, <<>>))
                     : j \in {SkipWs(s, i + 1)} })
    ELSE IF s[i] = "["
         THEN Only({ IF j <= Len(s) /\ s[j] = "]" THEN Ok(JArr(<<>>), j + 1)
                     ELSE ScanArray(s, ScanValue(s, j), <<>>)
                     : j \in {SkipWs(s, i + 1)} })
    ELSE IF StartsAt(s, i, <<"n", "u", "l", "l">>) THEN Ok(JNull, i + 4)
    ELSE IF StartsAt(s, i, <<"t", "r", "u", "e">>) THEN Ok(JTrue, i + 4)
    ELSE IF StartsAt(s, i, <<"f", "a", "l", "s", "e">>) THEN Ok(JFalse, i + 5)
    ELSE ScanNumber(s, i)

\* json.loads(s): [ok, val]; ok is FALSE where json.loads raises JSONDecodeError.
JsonLoads(s) ==
    Only({ IF v.ok /\ SkipWs(s, v.pos) = Len(s) + 1
           THEN [ok |-> TRUE, val |-> v.val]
           ELSE [ok |-> FALSE, val |-> JNull]
           : v \in {ScanValue(s, SkipWs(s, 1))} })

\* ------------------------------------------------------------------------
\* str() of a parsed value
\* ------------------------------------------------------------------------

\* The body of repr(str) with quote character q.
ReprEscape(s, q) ==
    Flatten([i \in 1..Len(s) |->
                CASE s[i] = "\\" -> <<"\\", "\\">>
                  [] s[i] = "\n" -> <<"\\", "n">>
                  [] s[i] = "\t" -> <<"\\", "t">>
                  [] s[i] = "\r" -> <<"\\", "r">>
                  [] s[i] = q -> <<"\\", q>>
                  [] OTHER -> <<s[i]>>])

\* repr(s) of a str: single quotes, double ones when s holds ' and no ".
ReprStr(s) ==
    LET q == IF (\E i \in 1..Len(s) : s[i] = "'") /\ ~(\E i \in 1..Len(s) : s[i] = "\"")
             THEN "\"" ELSE "'"
    IN <<q>> \o ReprEscape(s, q) \o <<q>>

RECURSIVE PyRepr(_)
RECURSIVE ReprJoin(_, _, _)
\* ", ".join of the reprs of a list's elements or of a dict's key: value pairs.
ReprJoin(v, i, isDict) ==
    IF i > Len(v.kids) THEN <<>>
    ELSE (IF i > 1 THEN <<",", " ">> ELSE <<>>)
         \o (IF isDict THEN ReprStr(v.keys[i]) \o <<":", " ">> ELSE <<>>)
         \o PyRepr(v.kids[i])
         \o ReprJoin(v, i + 1, isDict)

\* repr(v)
PyRepr(v) == CASE v.t = "str" -> ReprStr(v.s)
               [] v.t = "list" -> <<"[">> \o ReprJoin(v, 1, FALSE) \o <<"]">>
               [] v.t = "dict" -> <<"{">> \o ReprJoin(v, 1, TRUE) \o <<"}">>
               [] OTHER -> v.s

\* str(v)
PyStr(v) == IF v.t = "str" THEN v.s ELSE PyRepr(v)

\* not v
Falsy(v) == CASE v.t = "str" -> v.s = <<>>
              [] v.t = "int" -> v.s = <<"0">>
              [] v.t = "bool" -> v = JFalse
              [] v.t = "None" -> TRUE
              [] OTHER -> v.kids = <<>>

\* ------------------------------------------------------------------------
\* extract_json_array
\* ------------------------------------------------------------------------

NAME == <<"n", "a", "m", "e">>
LINKEDIN_URL == <<"l", "i", "n", "k", "e", "d", "i", "n", "_", "u", "r", "l">>
COMPANY == <<"/", "c", "o", "m", "p", "a", "n", "y", "/">>

\* JSON_REGEX.search(text), \[.*\] with DOTALL: the span from the leftmost "["
\* to the rightmost "]"; [found, group].
JsonRegexSearch(text) ==
    LET lo == FirstIdx(text, "[")
        hi == LastIdx(text, "]")
    IN IF lo # 0 /\ lo < hi
       THEN [found |-> TRUE, group |-> SubSeq(text, lo, hi)]
       ELSE [found |-> FALSE, group |-> <<>>]

\* raw = m.group(0) if m else text.strip()
Candidate(text) ==
    LET m == JsonRegexSearch(text)
    IN IF m.found THEN m.group ELSE Strip(text)

\* What "for item in data" iterates over; exc where data is not iterable.
Iterate(data) ==
    CASE data.t = "list" -> [exc |-> FALSE, items |-> data.kids]
      [] data.t = "dict" -> [exc |-> FALSE, items |-> [i \in 1..Len(data.keys) |-> JStr(data.keys[i])]]
      [] data.t = "str" -> [exc |-> FALSE, items |-> [i \in 1..Len(data.s) |-> JStr(<<data.s[i]>>)]]
      [] OTHER -> [exc |-> TRUE, items |-> <<>>]

\* item.get(...) exists on a dict only: AttributeError on everything else.
ItemRaises(item) == item.t # "dict"

\* if name and url and "/company/" in url
Keep(name, url) == name # <<>> /\ url # <<>> /\ Contains(url, COMPANY)

\* url.split("?")[0].split("#")[0]
Normalize(url) == SplitHead(SplitHead(url, "?"), "#")

\* The row of a kept item: its name, and its url without query and fragment.
Row(name, url) == [name |-> name, linkedin_url |-> Normalize(url)]

\* name = str(item.get("name", "")).strip()
ItemName(item) == Strip(PyStr(DictGet(item, NAME, JStr(<<>>))))

\* url = str(item.get("linkedin_url", "")).strip()
ItemUrl(item) == Strip(PyStr(DictGet(item, LINKEDIN_URL, JStr(<<>>))))

\* The rows one item appends: one where it passes the filter, none otherwise.
ItemRows(name, url) == IF Keep(name, url) THEN <<Row(name, url)>> ELSE <<>>

RECURSIVE NormalizeRows(_)
\* The loop over the items (all of them dicts) that builds rows.
NormalizeRows(items) ==
    IF items = <<>> THEN <<>>
    ELSE ItemRows(ItemName(Head(items)), ItemUrl(Head(items)))
         \o NormalizeRows(Tail(items))

RECURSIVE Dedupe_Reversed(_, _)
\* Dedupe with unique.insert(0, r) for unique.append(r).
Dedupe_Reversed(rows, seen) ==
    IF rows = <<>> THEN <<>>
    ELSE LET r == Head(rows)
         IN IF r.linkedin_url \notin seen
            THEN Dedupe_Reversed(Tail(rows), seen \cup {r.linkedin_url}) \o <<r>>
            ELSE Dedupe_Reversed(Tail(rows), seen)

RECURSIVE Dedupe(_, _)
\* The loop that keeps the rows whose url is not in seen yet.
Dedupe(rows, seen) ==
    IF rows = <<>> THEN <<>>
    ELSE LET r == Head(rows)
         IN IF r.linkedin_url \notin seen
            THEN <<r>> \o Dedupe(Tail(rows), seen \cup {r.linkedin_url})
            ELSE Dedupe(Tail(rows), seen)

\* The two loops, for what iterating the parsed value gave.
TryLoops(it) ==
    IF it.exc \/ \E i \in 1..Len(it.items) : ItemRaises(it.items[i])
    THEN [exc |-> TRUE, val |-> <<>>]
    ELSE [exc |-> FALSE, val |-> Dedupe(NormalizeRows(it.items), {})]

\* The try body after data = json.loads(raw).
TryParsed(data) ==
    IF ~data.ok THEN [exc |-> TRUE, val |-> <<>>]
    ELSE TryLoops(Iterate(data.val))

\* The body of the try block: [exc, val], exc where one of its lines raises.
TryBody(raw) == TryParsed(JsonLoads(raw))

\* The function without its except clause: what the try body raises leaves it.
ExceptClause_Propagates(body) ==
    [raised |-> body.exc, ret |-> IF body.exc THEN <<>> ELSE body.val]

\* except Exception: return []
ExceptClause(body) ==
    [raised |-> FALSE, ret |-> IF body.exc THEN <<>> ELSE body.val]

\* extract_json_array(text), text any Python value: [raised, ret]. A truthy
\* value that is no str makes JSON_REGEX.search raise TypeError, outside the try.
extract_json_array(text) ==
    IF Falsy(text) THEN [raised |-> FALSE, ret |-> <<>>]
    ELSE IF text.t # "str" THEN [raised |-> TRUE, ret |-> <<>>]
    ELSE ExceptClause(TryBody(Candidate(text.s)))

\* ------------------------------------------------------------------------
\* Inputs of extract_json_array
\* ------------------------------------------------------------------------

TRUE_TXT == <<"t", "r", "u", "e">>
FALSE_TXT == <<"f", "a", "l", "s", "e">>
NULL_TXT == <<"n", "u", "l", "l">>

\* "Here you go:" and a newline; a bracketed note; a newline and "Thanks"; a bracket.
PROSE_BEFORE == <<"H", "e", "r", "e", " ", "y", "o", "u", " ", "g", "o", ":", "\n">>
BRACKET_BEFORE == <<"[", "1", "]", " ">>
PROSE_AFTER == <<"\n", "T", "h", "a", "n", "k", "s">>
BRACKET_AFTER == <<" ", "]">>

\* json.dumps of the characters of a str.
DumpsEscape(s) ==
    Flatten([i \in 1..Len(s) |->
                CASE s[i] = "\"" -> <<"\\", "\"">>
                  [] s[i] = "\\" -> <<"\\", "\\">>
                  [] s[i] = "\n" -> <<"\\", "n">>
                  [] s[i] = "\t" -> <<"\\", "t">>
                  [] s[i] = "\r" -> <<"\\", "r">>
                  [] OTHER -> <<s[i]>>])

RECURSIVE Dumps(_)
RECURSIVE DumpsJoin(_, _, _)
DumpsJoin(v, i, isDict) ==
    IF i > Len(v.kids) THEN <<>>
    ELSE (IF i > 1 THEN <<",", " ">> ELSE <<>>)
         \o (IF isDict THEN <<"\"">> \o DumpsEscape(v.keys[i]) \o <<"\"", ":", " ">> ELSE <<>>)
         \o Dumps(v.kids[i])
         \o DumpsJoin(v, i + 1, isDict)

\* json.dumps(v) with its default separators: the text a model reply carries.
Dumps(v) == CASE v.t = "str" -> <<"\"">> \o DumpsEscape(v.s) \o <<"\"">>
              [] v.t = "int" -> v.s
              [] v.t = "bool" -> IF v = JTrue THEN TRUE_TXT ELSE FALSE_TXT
              [] v.t = "None" -> NULL_TXT
              [] v.t = "list" -> <<"[">> \o DumpsJoin(v, 1, FALSE) \o <<"]">>
              [] OTHER -> <<"{">> \o DumpsJoin(v, 1, TRUE) \o <<"}">>

\* {"name": name, "linkedin_url": url}, the element shape the prompt asks for.
Company(name, url) == JObj(<<NAME, LINKEDIN_URL>>, <<JStr(name), JStr(url)>>)

\* The elements a generated array is built from.
ElementPool == {
    Company(<<"A">>, COMPANY \o <<"a">>),
    Company(<<"B">>, COMPANY \o <<"a", "#", "b">>),
    Company(<<"C">>, COMPANY \o <<"a", "?", "x">>),
    Company(<<" ", "D">>, COMPANY \o <<"d">>),
    Company(<<"E">>, <<"x", "?", "q", "=">> \o COMPANY \o <<"e">>),
    Company(<<"Q", "\"">>, COMPANY \o <<"q">>),
    Company(<<>>, COMPANY \o <<"f">>),
    Company(<<"G">>, <<"/", "i", "n", "/", "g">>),
    JObj(<<NAME, LINKEDIN_URL>>, <<JNull, JStr(COMPANY \o <<"h">>)>>),
    JNum(<<"1">>)
}

\* Text a reply puts before and after the array.
Prefixes == {<<>>, PROSE_BEFORE, BRACKET_BEFORE}
Suffixes == {<<>>, PROSE_AFTER, BRACKET_AFTER}

\* Replies that hold no array of the generated shape.
RawTexts == {
    <<>>,
    <<" ">>,
    <<"n", "o">>,
    <<"5">>,
    NULL_TXT,
    TRUE_TXT,
    <<"\"", "a", "b", "\"">>,
    <<"\"", "\"">>,
    <<"{", "}">>,
    Dumps(Company(<<"A">>, COMPANY \o <<"a">>)),
    <<" ", "[", "]", "\n">>,
    <<"[">>,
    <<"]", "x", "[">>,
    <<"[", "1", ",", "]">>,
    <<"[", "[", "]", "]">>,
    <<"{", "\"", "a", "\"", ":", "[", "]", "}">>
}

ItemLists == UNION {[1..n -> ElementPool] : n \in 0..MaxItems}

\* ------------------------------------------------------------------------
\* The submit handler: the pure parts
\* ------------------------------------------------------------------------

\* A variable of the handler that holds nothing yet.
NoValue == [t |-> "unset", s |-> <<>>, keys |-> <<>>, kids |-> <<>>]

\* ------------------------------------------------------------------------
\* build_user_prompt
\* ------------------------------------------------------------------------
\* The prompt is the sequence of its lines (the text between the newlines of
\* the f-string), each a sequence of characters. A TLA+ string cannot hold the
\* grave accent: the element "GRAVE" stands for that one character.

\* Line 114.
T_ASSISTANT ==
    <<"Y", "o", "u", " ", "a", "r", "e", " ", "a", " ", "w", "e", "b", " ", "r", "e",
      "s", "e", "a", "r", "c", "h", " ", "a", "s", "s", "i", "s", "t", "a", "n", "t",
      ".">>

\* Line 115, before and after {k}.
T_TASK ==
    <<"T", "a", "s", "k", ":", " ", "F", "i", "n", "d", " ", "u", "p", " ", "t", "o",
      " ">>

T_TASK_END ==
    <<" ", "*", "*", "p", "u", "b", "l", "i", "c", " ", "L", "i", "n", "k", "e", "d",
      "I", "n", " ", "c", "o", "m", "p", "a", "n", "y", " ", "p", "a", "g", "e", "s",
      "*", "*", " ", "t", "h", "a", "t", " ", "m", "a", "t", "c", "h", " ", "t", "h",
      "e", "s", "e", " ", "f", "i", "l", "t", "e", "r", "s", ".">>

\* Line 117.
T_FILTERS ==
    <<"F", "i", "l", "t", "e", "r", "s", ":">>

\* Lines 118 to 121, up to the substituted value.
T_KEYWORDS ==
    <<"-", " ", "K", "e", "y", "w", "o", "r", "d", "s", " ", "(", "m", "a", "t", "c",
      "h", " ", "a", "n", "y", ")", ":", " ">>

T_LOCATION ==
    <<"-", " ", "L", "o", "c", "a", "t", "i", "o", "n", " ", "(", "c", "i", "t", "y",
      "/", "r", "e", "g", "i", "o", "n", "/", "c", "o", "u", "n", "t", "r", "y", " ",
      "w", "o", "r", "d", "s", " ", "m", "u", "s", "t", " ", "a", "p", "p", "e", "a",
      "r", " ", "o", "n", " ", "t", "h", "e", " ", "p", "a", "g", "e", " ", "o", "r",
      " ", "m", "e", "t", "a", "d", "a", "t", "a", ")", ":", " ">>

T_SIZE ==
    <<"-", " ", "C", "o", "m", "p", "a", "n", "y", " ", "s", "i", "z", "e", " ", "(",
      "u", "s", "e", " ", "L", "i", "n", "k", "e", "d", "I", "n", " ", "s", "i", "z",
      "e", " ", "t", "a", "g", " ", "w", "h", "e", "n", " ", "v", "i", "s", "i", "b",
      "l", "e", ")", ":", " ">>

T_STARTS_WITH ==
    <<"-", " ", "C", "o", "m", "p", "a", "n", "y", " ", "n", "a", "m", "e", " ", "s",
      "t", "a", "r", "t", "s", " ", "w", "i", "t", "h", ":", " ">>

\* Lines 123 to 132: the rules and the output directive ({{ and }} of the f-string are { and }).
T_L123 ==
    <<"R", "u", "l", "e", "s", ":">>

T_L124 ==
    <<"1", ")", " ", "U", "s", "e", " ", "w", "e", "b", " ", "s", "e", "a", "r", "c",
      "h", ".", " ", "C", "o", "n", "s", "i", "d", "e", "r", " ", "r", "e", "p", "u",
      "t", "a", "b", "l", "e", " ", "s", "o", "u", "r", "c", "e", "s", " ", "a", "n",
      "d", " ", "p", "r", "i", "o", "r", "i", "t", "i", "z", "e", " ", "L", "i", "n",
      "k", "e", "d", "I", "n", " ", "*", "*", "c", "o", "m", "p", "a", "n", "y", "*",
      "*", " ", "p", "a", "g", "e", "s", " ", "o", "n", "l", "y", " ", "(", "U", "R",
      "L", "s", " ", "l", "i", "k", "e", " ", "GRAVE", "h", "t", "t", "p", "s", ":", "/",
      "/", "w", "w", "w", ".", "l", "i", "n", "k", "e", "d", "i", "n", ".", "c", "o",
      "m", "/", "c", "o", "m", "p", "a", "n", "y", "/", ".", ".", ".", "GRAVE", ")", ".">>

T_L125 ==
    <<"2", ")", " ", "E", "x", "c", "l", "u", "d", "e", " ", "p", "e", "r", "s", "o",
      "n", "a", "l", " ", "p", "r", "o", "f", "i", "l", "e", "s", ",", " ", "j", "o",
      "b", " ", "p", "o", "s", "t", "s", ",", " ", "p", "o", "s", "t", "s", ",", " ",
      "o", "r", " ", "s", "a", "l", "e", "s", " ", "p", "a", "g", "e", "s", ".">>

T_L126 ==
    <<"3", ")", " ", "R", "e", "t", "u", "r", "n", " ", "*", "*", "O", "N", "L", "Y",
      "*", "*", " ", "a", " ", "c", "o", "m", "p", "a", "c", "t", " ", "J", "S", "O",
      "N", " ", "a", "r", "r", "a", "y", " ", "(", "n", "o", " ", "p", "r", "o", "s",
      "e", ")", " ", "w", "i", "t", "h", " ", "o", "b", "j", "e", "c", "t", "s", " ",
      "o", "f", " ", "s", "h", "a", "p", "e", ":">>

T_L127 ==
    <<" ", " ", " ", "{", "\"", "n", "a", "m", "e", "\"", ":", " ", "\"", "C", "o", "m",
      "p", "a", "n", "y", " ", "N", "a", "m", "e", "\"", ",", " ", "\"", "l", "i", "n",
      "k", "e", "d", "i", "n", "_", "u", "r", "l", "\"", ":", " ", "\"", "h", "t", "t",
      "p", "s", ":", "/", "/", "w", "w", "w", ".", "l", "i", "n", "k", "e", "d", "i",
      "n", ".", "c", "o", "m", "/", "c", "o", "m", "p", "a", "n", "y", "/", ".", ".",
      ".", "\"", "}">>

T_L128 ==
    <<"4", ")", " ", "E", "n", "s", "u", "r", "e", " ", "U", "R", "L", "s", " ", "a",
      "r", "e", " ", "c", "a", "n", "o", "n", "i", "c", "a", "l", " ", "c", "o", "m",
      "p", "a", "n", "y", " ", "p", "a", "g", "e", "s", " ", "(", "a", "v", "o", "i",
      "d", " ", "t", "r", "a", "c", "k", "i", "n", "g", " ", "p", "a", "r", "a", "m",
      "s", ")", " ", "a", "n", "d", " ", "u", "n", "i", "q", "u", "e", " ", "b", "y",
      " ", "c", "o", "m", "p", "a", "n", "y", " ", "d", "o", "m", "a", "i", "n", ".">>

T_L129 ==
    <<"5", ")", " ", "P", "r", "e", "f", "e", "r", " ", "c", "o", "m", "p", "a", "n",
      "i", "e", "s", " ", "w", "h", "o", "s", "e", " ", "p", "a", "g", "e", " ", "t",
      "e", "x", "t", "/", "s", "n", "i", "p", "p", "e", "t", " ", "s", "h", "o", "w",
      "s", " ", "t", "h", "e", " ", "k", "e", "y", "w", "o", "r", "d", "(", "s", ")",
      " ", "a", "n", "d", " ", "l", "o", "c", "a", "t", "i", "o", "n", " ", "s", "i",
      "g", "n", "a", "l", ".">>

T_L130 ==
    <<"6", ")", " ", "I", "f", " ", "n", "o", "t", "h", "i", "n", "g", " ", "i", "s",
      " ", "f", "o", "u", "n", "d", ",", " ", "r", "e", "t", "u", "r", "n", " ", "GRAVE",
      "[", "]", "GRAVE", ".">>

T_L131 == <<>>

T_L132 ==
    <<"O", "u", "t", "p", "u", "t", ":", " ", "J", "S", "O", "N", " ", "a", "r", "r",
      "a", "y", " ", "o", "n", "l", "y", ".">>

T_RULES == <<T_L123, T_L124, T_L125, T_L126, T_L127, T_L128, T_L129, T_L130, T_L131, T_L132>>

NA ==
    <<"N", "/", "A">>

ANY ==
    <<"a", "n", "y">>

SLIDER_MIN == 1
SLIDER_MAX == 200
MAX_COMPANIES_DEFAULT == 50

RECURSIVE DecStr(_)
\* str(k) of a non-negative int.
DecStr(k) ==
    LET d == <<"0", "1", "2", "3", "4", "5", "6", "7", "8", "9">>[(k % 10) + 1]
    IN IF k < 10 THEN <<d>> ELSE Append(DecStr(k \div 10), d)

\* {keywords} with no default.
KeywordsField_NoDefault(keywords) == keywords

\* {keywords or 'N/A'}
KeywordsField(keywords) == IF keywords = <<>> THEN NA ELSE keywords

\* {location or 'N/A'}
LocationField(location) == IF location = <<>> THEN NA ELSE location

\* {starts_with or 'any'}
StartsWithField(starts_with) == IF starts_with = <<>> THEN ANY ELSE starts_with

\* {k}
CountField(k) == DecStr(k)

\* build_user_prompt(keywords, location, size, starts_with, k): the lines of
\* the returned string.
build_user_prompt(keywords, location, size, starts_with, k) ==
    << <<>>,
       T_ASSISTANT,
       T_TASK \o CountField(k) \o T_TASK_END,
       <<>>,
       T_FILTERS,
       T_KEYWORDS \o KeywordsField(keywords),
       T_LOCATION \o LocationField(location),
       T_SIZE \o size,
       T_STARTS_WITH \o StartsWithField(starts_with),
       <<>> >>
    \o T_RULES
    \o << <<>> >>

\* The index of the line of each filter in the prompt.
TaskLine == 3
KeywordsLine == 6
LocationLine == 7
SizeLine == 8
StartsWithLine == 9

\* The options of the "Company size" selectbox.
SIZES == {
    <<"a", "n", "y">>,
    <<"1", "-", "1", "0">>,
    <<"1", "1", "-", "5", "0">>,
    <<"5", "1", "-", "2", "0", "0">>,
    <<"2", "0", "1", "-", "5", "0", "0">>,
    <<"5", "0", "1", "-", "1", ",", "0", "0", "0">>,
    <<"1", ",", "0", "0", "1", "-", "5", ",", "0", "0", "0">>,
    <<"5", ",", "0", "0", "1", "-", "1", "0", ",", "0", "0", "0">>,
    <<"1", "0", ",", "0", "0", "1", "+">>
}

LOWER == <<"a", "b", "c", "d", "e", "f", "g", "h", "i", "j", "k", "l", "m", "n", "o", "p", "q", "r", "s", "t", "u", "v", "w", "x", "y", "z">>
UPPER == <<"A", "B", "C", "D", "E", "F", "G", "H", "I", "J", "K", "L", "M", "N", "O", "P", "Q", "R", "S", "T", "U", "V", "W", "X", "Y", "Z">>

\* s.upper()
Upper(s) == [i \in 1..Len(s) |->
                IF \E j \in 1..Len(LOWER) : LOWER[j] = s[i]
                THEN UPPER[CHOOSE j \in 1..Len(LOWER) : LOWER[j] = s[i]]
                ELSE s[i]]

CHOICES == <<"c", "h", "o", "i", "c", "e", "s">>
MESSAGE == <<"m", "e", "s", "s", "a", "g", "e">>
MESSAGES == <<"m", "e", "s", "s", "a", "g", "e", "s">>
CONTENT == <<"c", "o", "n", "t", "e", "n", "t">>

HTTP_OK == 200
EXCERPT_LEN == 500

\* resp.status_code >= 500: only a server error counts.
IsApiError_ServerOnly(status) == status >= 500

\* resp.status_code != 200
IsApiError(status) == status # HTTP_OK

\* resp.text[:500]
Excerpt(body) == IF Len(body) <= EXCERPT_LEN THEN body ELSE SubSeq(body, 1, EXCERPT_LEN)

\* An expression's outcome: [exc, val], exc where evaluating it raises.
Value(v) == [exc |-> FALSE, val |-> v]
Raises == [exc |-> TRUE, val |-> JNull]

\* r[key] for a str key: KeyError or TypeError unless r is a dict holding key.
Subscript(r, key) ==
    IF r.exc THEN r
    ELSE IF r.val.t = "dict" /\ \E i \in 1..Len(r.val.keys) : r.val.keys[i] = key
         THEN Value(DictGet(r.val, key, JNull))
         ELSE Raises

\* r[0]: the first element of a list or of a str; IndexError on an empty
\* one, KeyError on a dict, TypeError on the rest.
First(r) ==
    IF r.exc THEN r
    ELSE IF r.val.t = "list" /\ r.val.kids # <<>> THEN Value(r.val.kids[1])
    ELSE IF r.val.t = "str" /\ r.val.s # <<>> THEN Value(JStr(<<r.val.s[1]>>))
    ELSE Raises

\* r.get(key, default): AttributeError unless r is a dict.
Get(r, key, default) ==
    IF r.exc THEN r
    ELSE IF r.val.t = "dict" THEN Value(DictGet(r.val, key, default))
    ELSE Raises

\* data["choices"][0]["message"]["content"]
PrimaryContent(data) ==
    Subscript(Subscript(First(Subscript(Value(data), CHOICES)), MESSAGE), CONTENT)

\* data.get("choices", [{}])[0].get("messages", [{}])[0].get("content", "")
FallbackContent(data) ==
    LET dflt == JArr(<<JObj(<<>>, <<>>)>>)
    IN Get(First(Get(First(Get(Value(data), CHOICES, dflt)), MESSAGES, dflt)),
           CONTENT, JStr(<<>>))

\* The try/except around the two paths: the fallback runs where the primary
\* path raises, and what the fallback raises leaves the handler's try body.
AssistantContent(data) ==
    Only({ IF ~c.exc THEN c ELSE FallbackContent(data) : c \in {PrimaryContent(data)} })

Report(kind, code, txt) == [kind |-> kind, code |-> code, text |-> txt]

\* What an exception leaving the try body is reported as: a
\* requests.exceptions.RequestException by the first except clause, anything
\* else by the second.
ExceptReport(isRequestException) ==
    IF isRequestException THEN Report("network_error", 0, <<>>)
    ELSE Report("unexpected_error", 0, <<>>)

\* What a run leaves behind when it ends before anything is shown.
Ended == [pc |-> "done", steps |-> <<>>, content |-> NoValue, rows |-> <<>>,
          reports |-> <<>>, shown |-> {}]

\* Lines 218 to 243: the empty-result branch (warning, raw output, st.stop())
\* or the table, the two downloads and the raw output.
ShowRows(c, r) ==
    IF r = <<>>
    THEN [Ended EXCEPT !.pc = "stopped",
                       !.steps = <<"json", "content", "extract">>,
                       !.content = c,
                       !.reports = <<Report("warning", 0, <<>>)>>,
                       !.shown = {"raw_json"}]
    ELSE [Ended EXCEPT !.steps = <<"json", "content", "extract", "table", "export">>,
                       !.content = c,
                       !.rows = r,
                       !.reports = <<Report("success", Len(r), <<>>)>>,
                       !.shown = {"dataframe", "csv", "xlsx", "raw_output"}]

\* Line 218 on, for what rows = extract_json_array(content) gave; what the
\* call raises leaves the try body and is no RequestException.
HandleRows(c, r) ==
    IF r.raised
    THEN [Ended EXCEPT !.steps = <<"json", "content", "extract">>,
                       !.content = c,
                       !.reports = <<ExceptReport(FALSE)>>]
    ELSE ShowRows(c, r.ret)

\* Line 217 on, for what the two content paths gave.
HandleContent(c) ==
    IF c.exc
    THEN [Ended EXCEPT !.steps = <<"json", "content">>,
                       !.reports = <<ExceptReport(FALSE)>>]
    ELSE HandleRows(c.val, extract_json_array(c.val))

\* Line 206 on, for what data = resp.json() gave. jsonErrIsRequestException:
\* whether what resp.json() raises on a body that is no JSON derives from
\* RequestException (it does from requests 2.27 on, and is a plain ValueError
\* before).
HandleData(data, jsonErrIsRequestException) ==
    IF ~data.ok
    THEN [Ended EXCEPT !.steps = <<"json">>,
                       !.reports = <<ExceptReport(jsonErrIsRequestException)>>]
    ELSE HandleContent(AssistantContent(data.val))

\* The handler from the status check on, for a response of the given status
\* and body.
HandleResponse(status, body, jsonErrIsRequestException) ==
    IF IsApiError(status)
    THEN [Ended EXCEPT !.pc = "stopped",
                       !.reports = <<Report("api_error", status, Excerpt(body))>>]
    ELSE HandleData(JsonLoads(body), jsonErrIsRequestException)

\* ------------------------------------------------------------------------
\* State
\* ------------------------------------------------------------------------

VARIABLES
    \* one call of extract_json_array
    text,       \* its argument
    shape,      \* "embedded": text = prefix + json.dumps(items) + suffix; "raw"
    items,      \* the elements of the embedded array
    prefix,
    suffix,
    epc,        \* "call" before the call, "returned" after it, "idle"
    raised,     \* whether the call raised
    unique,     \* the list it returned
    \* the form's values and one call of build_user_prompt
    keywords,
    location,
    size,
    starts_with,
    max_companies,
    ppc,        \* "call" before the call, "returned" after it, "idle"
    prompt,     \* the lines of the returned string
    \* one run of the submit handler
    API_KEY,
    pc,         \* "submitted", "posting", "stopped" (st.stop()), "done", "idle"
    steps,      \* the handler's stages run so far, in order
    status_code,
    resp_text,
    content,    \* the assistant content the handler found
    rows,
    reports,    \* what st.error, st.warning and st.success were called with
    shown       \* the other elements on the page

evars == <<text, shape, items, prefix, suffix, epc, raised, unique>>
fvars == <<keywords, location, size, starts_with, max_companies>>
pvars == <<ppc, prompt>>
hvars == <<API_KEY, pc, steps, status_code, resp_text, content, rows, reports, shown>>

vars == <<evars, fvars, pvars, hvars>>

\* The variables of the parts a specification leaves aside.
ExtractIdle ==
    /\ text = <<>> /\ shape = "raw" /\ items = <<>> /\ prefix = <<>> /\ suffix = <<>>
    /\ epc = "idle" /\ raised = FALSE /\ unique = <<>>

FormIdle ==
    /\ keywords = <<>> /\ location = <<>> /\ size = <<>> /\ starts_with = <<>>
    /\ max_companies = 0

PromptIdle == ppc = "idle" /\ prompt = <<>>

SubmitIdle ==
    /\ API_KEY = <<>> /\ pc = "idle" /\ steps = <<>> /\ status_code = 0
    /\ resp_text = <<>> /\ content = NoValue /\ rows = <<>> /\ reports = <<>>
    /\ shown = {}

\* ------------------------------------------------------------------------
\* Specification of one call of extract_json_array
\* ------------------------------------------------------------------------

InitExtract ==
    /\ \/ /\ shape = "embedded"
          /\ items \in ItemLists
          /\ prefix \in Prefixes
          /\ suffix \in Suffixes
          /\ text = prefix \o Dumps(JArr(items)) \o suffix
       \/ /\ shape = "raw"
          /\ items = <<>>
          /\ prefix = <<>>
          /\ suffix = <<>>
          /\ text \in RawTexts
    /\ epc = "call"
    /\ raised = FALSE
    /\ unique = <<>>
    /\ FormIdle
    /\ PromptIdle
    /\ SubmitIdle

\* rows = extract_json_array(text)
Extract ==
    /\ epc = "call"
    /\ \E r \in {extract_json_array(JStr(text))} :
           /\ raised' = r.raised
           /\ unique' = r.ret
    /\ epc' = "returned"
    /\ UNCHANGED <<text, shape, items, prefix, suffix, fvars, pvars, hvars>>

NextExtract == Extract

SpecExtract == InitExtract /\ [][NextExtract]_vars

\* ------------------------------------------------------------------------
\* Claims about extract_json_array (checked under SpecExtract)
\* ------------------------------------------------------------------------

\* What json.loads makes of the candidate span of the call's text.
ParsedCandidate == JsonLoads(Candidate(text))

IsDict(v) == v.t = "dict"

RECURSIVE FirstOccurrences(_, _)
\* The rs from index i on whose url no earlier row has, in order.
FirstOccurrences(rs, i) ==
    IF i > Len(rs) THEN <<>>
    ELSE (IF \A j \in 1..(i - 1) : rs[j].linkedin_url # rs[i].linkedin_url
          THEN <<rs[i]>> ELSE <<>>)
         \o FirstOccurrences(rs, i + 1)

\* C1: extract_json_array never raises on a string; it returns the empty
\* list when the string is empty, when the candidate text is not valid JSON
\* and when the parsed top-level value is not an array.
C1_NeverRaisesEmptyOnMalformed ==
    epc = "returned" =>
        /\ ~raised
        /\ DOMAIN unique = 1..Len(unique)
        /\ (text = <<>> => unique = <<>>)
        /\ (~ParsedCandidate.ok => unique = <<>>)
        /\ (ParsedCandidate.ok /\ ParsedCandidate.val.t # "list" => unique = <<>>)

\* A call has returned on a text whose top-level value is a non-empty object.
C1_Witness ==
    /\ epc = "returned"
    /\ ParsedCandidate.ok
    /\ ParsedCandidate.val.t = "dict"
    /\ ParsedCandidate.val.kids # <<>>
    /\ unique = <<>>

\* C2: every returned record has a non-empty name and a stored url that is
\* non-empty, contains "/company/" and holds neither "?" nor "#".
C2_StoredUrlHasMarker ==
    epc = "returned" =>
        \A i \in 1..Len(unique) :
            /\ unique[i].name # <<>>
            /\ unique[i].linkedin_url # <<>>
            /\ Contains(unique[i].linkedin_url, COMPANY)
            /\ ~Contains(unique[i].linkedin_url, <<"?">>)
            /\ ~Contains(unique[i].linkedin_url, <<"#">>)

\* C3: the returned list has no two records with the same url and is the
\* sequence of the kept (validated, normalized) elements of the parsed array,
\* in input order, without those whose url occurred earlier.
C3_StableDedupOfKept ==
    epc = "returned" /\ ParsedCandidate.ok /\ ParsedCandidate.val.t = "list" =>
        /\ \A i, j \in 1..Len(unique) :
               unique[i].linkedin_url = unique[j].linkedin_url => i = j
        /\ unique = FirstOccurrences(
                        NormalizeRows(SelectSeq(ParsedCandidate.val.kids, IsDict)), 1)

\* A record as the round trip takes it: a dict of a name str and a url str.
IsRecord(v) ==
    /\ v.t = "dict"
    /\ v.keys = <<NAME, LINKEDIN_URL>>
    /\ v.kids[1].t = "str"
    /\ v.kids[2].t = "str"

\* The list of records the items stand for.
ItemRecords == [i \in 1..Len(items) |->
                   [name |-> items[i].kids[1].s, linkedin_url |-> items[i].kids[2].s]]

\* The call's text is json.dumps of a list of valid CompanyRecord values with
\* pairwise distinct urls that hold neither "?" nor "#".
RoundTripInput ==
    /\ shape = "embedded"
    /\ prefix = <<>>
    /\ suffix = <<>>
    /\ \A i \in 1..Len(items) :
           /\ IsRecord(items[i])
           /\ ItemRecords[i].name # <<>>
           /\ Contains(ItemRecords[i].linkedin_url, COMPANY)
           /\ ~Contains(ItemRecords[i].linkedin_url, <<"?">>)
           /\ ~Contains(ItemRecords[i].linkedin_url, <<"#">>)
    /\ \A i, j \in 1..Len(items) :
           ItemRecords[i].linkedin_url = ItemRecords[j].linkedin_url => i = j

\* No name and no url of the items starts or ends with whitespace.
ItemsTrimmed ==
    \A i \in 1..Len(items) :
        /\ Strip(ItemRecords[i].name) = ItemRecords[i].name
        /\ Strip(ItemRecords[i].linkedin_url) = ItemRecords[i].linkedin_url

\* C4 as stated: the round trip returns the input list, in order and content.
C4_RoundTrip ==
    epc = "returned" /\ RoundTripInput => unique = ItemRecords

\* C4, amended: the round trip returns the input list when, in addition, no
\* name and no url starts or ends with whitespace.
C4_RoundTripTrimmed ==
    epc = "returned" /\ RoundTripInput /\ ItemsTrimmed => unique = ItemRecords

\* A round trip of two trimmed records, one with an escaped quote in its name.
C4_Witness ==
    /\ epc = "returned"
    /\ RoundTripInput
    /\ ItemsTrimmed
    /\ Len(items) = 2
    /\ \E i \in 1..2 : Contains(ItemRecords[i].name, <<"\"">>)
    /\ unique = ItemRecords

\* C5: for a well-formed array text A and any strings P and S,
\* extract_json_array(P + A + S) equals extract_json_array(A).
C5_EmbeddedEqualsBare ==
    epc = "returned" /\ shape = "embedded" =>
        unique = extract_json_array(JStr(Dumps(JArr(items)))).ret

\* C8: a non-object element of the parsed array is skipped and the valid
\* object elements of the array are still returned.
C8_NonObjectSkipped ==
    epc = "returned" /\ ParsedCandidate.ok /\ ParsedCandidate.val.t = "list" =>
        unique = TryBody(Dumps(JArr(SelectSeq(ParsedCandidate.val.kids, IsDict)))).val

\* ------------------------------------------------------------------------
\* Inputs of build_user_prompt
\* ------------------------------------------------------------------------
\* What the form's widgets hand over (a sample of the free texts and letters).
KEYWORD_TEXTS == {<<>>, <<"s", "o", "l", "a", "r", " ", "p", "v", ",", " ", "e", "p", "c">>, NA}
LOCATION_TEXTS == {<<>>, <<"O", "m", "a", "n">>}
LETTERS == {<<>>, <<"A">>, <<"Z">>}
COUNTS == {SLIDER_MIN, MAX_COMPANIES_DEFAULT, SLIDER_MAX}

\* ------------------------------------------------------------------------
\* Specification of one call of build_user_prompt
\* ------------------------------------------------------------------------

InitPrompt ==
    /\ keywords \in KEYWORD_TEXTS
    /\ location \in LOCATION_TEXTS
    /\ size \in SIZES
    /\ starts_with \in LETTERS
    /\ max_companies \in COUNTS
    /\ ppc = "call"
    /\ prompt = <<>>
    /\ ExtractIdle
    /\ SubmitIdle

\* user_prompt = build_user_prompt(keywords, location, size, starts_with, k)
BuildPrompt ==
    /\ ppc = "call"
    /\ prompt' = build_user_prompt(keywords, location, size, starts_with, max_companies)
    /\ ppc' = "returned"
    /\ UNCHANGED <<evars, fvars, hvars>>

NextPrompt == BuildPrompt

SpecPrompt == InitPrompt /\ [][NextPrompt]_vars

\* C6 as stated: with keywords, location and startsWith empty, the prompt
\* holds "N/A" in the line of each of the three fields, and holds the count k.
C6_NAForEachEmptyField ==
    ppc = "returned" /\ keywords = <<>> /\ location = <<>> /\ starts_with = <<>> =>
        /\ Contains(prompt[KeywordsLine], NA)
        /\ Contains(prompt[LocationLine], NA)
        /\ Contains(prompt[StartsWithLine], NA)
        /\ \E i \in 1..Len(prompt) : Contains(prompt[i], DecStr(max_companies))

\* C6, amended: with keywords, location and startsWith empty, the prompt holds
\* "N/A" in the keywords line and in the location line, "any" in the
\* name-prefix line, and the count k in the task line.
C6_NAForKeywordsAndLocation ==
    ppc = "returned" /\ keywords = <<>> /\ location = <<>> /\ starts_with = <<>> =>
        /\ Contains(prompt[KeywordsLine], NA)
        /\ Contains(prompt[LocationLine], NA)
        /\ Contains(prompt[StartsWithLine], ANY)
        /\ ~Contains(prompt[StartsWithLine], NA)
        /\ Contains(prompt[TaskLine], DecStr(max_companies))

\* A prompt built from empty keywords, location and startsWith and the
\* largest count.
C6_Witness ==
    /\ ppc = "returned"
    /\ keywords = <<>>
    /\ location = <<>>
    /\ starts_with = <<>>
    /\ max_companies = SLIDER_MAX
    /\ Len(prompt) > StartsWithLine

\* ------------------------------------------------------------------------
\* Inputs of the submit handler
\* ------------------------------------------------------------------------

SECRET == <<"s", "k", "-", "o", "r">>

CompanyA == Company(<<"A">>, COMPANY \o <<"a">>)
CompanyB == Company(<<"B">>, COMPANY \o <<"a", "#", "b">>)

\* What the reply carries as the assistant's content.
CONTENTS == {
    JStr(Dumps(JArr(<<CompanyA>>))),
    JStr(PROSE_BEFORE \o Dumps(JArr(<<CompanyA, CompanyB>>)) \o PROSE_AFTER),
    JStr(Dumps(JArr(<<>>))),
    JStr(<<"n", "o">>),
    JStr(<<>>),
    JNull,
    JNum(<<"5">>),
    JArr(<<CompanyA>>)
}

Obj1(key, v) == JObj(<<key>>, <<v>>)

\* {"choices": [{"message": {"content": c}}]}
PrimaryShape(c) == Obj1(CHOICES, JArr(<<Obj1(MESSAGE, Obj1(CONTENT, c))>>))

\* {"choices": [{"messages": [{"content": c}]}]}
FallbackShape(c) == Obj1(CHOICES, JArr(<<Obj1(MESSAGES, JArr(<<Obj1(CONTENT, c)>>))>>))

\* The JSON values a 200 reply's body may hold.
REPLIES ==
    {PrimaryShape(c) : c \in CONTENTS}
    \cup {FallbackShape(c) : c \in CONTENTS}
    \cup {
        JObj(<<>>, <<>>),
        Obj1(<<"e", "r", "r", "o", "r">>, JStr(<<"n", "o">>)),
        Obj1(CHOICES, JArr(<<>>)),
        Obj1(CHOICES, JNull),
        Obj1(CHOICES, JArr(<<JObj(<<>>, <<>>)>>)),
        Obj1(CHOICES, JArr(<<JNull>>)),
        Obj1(CHOICES, JArr(<<Obj1(MESSAGE, JObj(<<>>, <<>>))>>)),
        Obj1(CHOICES, JArr(<<Obj1(MESSAGE, JNull)>>)),
        Obj1(CHOICES, JArr(<<Obj1(MESSAGES, JArr(<<>>))>>)),
        Obj1(CHOICES, JArr(<<Obj1(MESSAGES, JArr(<<JObj(<<>>, <<>>)>>))>>)),
        Obj1(CHOICES, JArr(<<Obj1(MESSAGES, JNull)>>))
    }

\* A body of n characters that is no JSON, each character telling its place.
Filler(n) == [i \in 1..n |-> IF i = 1 THEN "<" ELSE DecStr(i % 10)[1]]

\* The bodies a response may carry.
BODIES ==
    {Dumps(v) : v \in REPLIES}
    \cup {Filler(n) : n \in {0, 3, EXCERPT_LEN - 1, EXCERPT_LEN, EXCERPT_LEN + 1}}

STATUS_CODES == {HTTP_OK, 201, 401, 429, 500}

\* ------------------------------------------------------------------------
\* Specification of one run of the submit handler
\* ------------------------------------------------------------------------

\* The state the script is in when it reaches "if submitted:" with the form
\* submitted: the missing key was reported at line 45.
InitSubmit ==
    /\ API_KEY \in {<<>>, SECRET}
    /\ keywords \in {<<>>, <<"a", "i">>}
    /\ location = <<>>
    /\ size = ANY
    /\ starts_with \in {<<>>, <<"A">>}
    /\ max_companies = MAX_COMPANIES_DEFAULT
    /\ pc = "submitted"
    /\ steps = <<>>
    /\ status_code = 0
    /\ resp_text = <<>>
    /\ content = NoValue
    /\ rows = <<>>
    /\ reports = IF API_KEY = <<>> THEN <<Report("config_error", 0, <<>>)>> ELSE <<>>
    /\ shown = {}
    /\ prompt = <<>>
    /\ ppc = "idle"
    /\ ExtractIdle

\* if not API_KEY: st.stop()
NoCredential ==
    /\ pc = "submitted"
    /\ API_KEY = <<>>
    /\ pc' = "stopped"
    /\ UNCHANGED <<evars, fvars, pvars, API_KEY, steps, status_code, resp_text, content,
                   rows, reports, shown>>

\* The prompt and the payload are built and requests.post is called.
Post ==
    /\ pc = "submitted"
    /\ API_KEY # <<>>
    /\ prompt' = build_user_prompt(keywords, location, size, Strip(Upper(starts_with)),
                                   max_companies)
    /\ steps' = Append(steps, "post")
    /\ pc' = "posting"
    /\ UNCHANGED <<evars, fvars, ppc, API_KEY, status_code, resp_text, content, rows,
                   reports, shown>>

\* A handler that posts again when requests.post raises.
RequestFails_Retry ==
    /\ pc = "posting"
    /\ steps' = Append(steps, "post")
    /\ UNCHANGED <<evars, fvars, pvars, API_KEY, pc, status_code, resp_text, content,
                   rows, reports, shown>>

\* requests.post raises a RequestException (no connection, the 90 s timeout).
RequestFails ==
    /\ pc = "posting"
    /\ reports' = Append(reports, ExceptReport(TRUE))
    /\ pc' = "done"
    /\ UNCHANGED <<evars, fvars, pvars, API_KEY, steps, status_code, resp_text, content,
                   rows, shown>>

\* requests.post returns a response and the handler runs to its end.
Respond ==
    /\ pc = "posting"
    /\ \E status \in STATUS_CODES, body \in BODIES, j \in BOOLEAN :
           \E h \in {HandleResponse(status, body, j)} :
              /\ status_code' = status
              /\ resp_text' = body
              /\ pc' = h.pc
              /\ steps' = steps \o h.steps
              /\ content' = h.content
              /\ rows' = h.rows
              /\ reports' = reports \o h.reports
              /\ shown' = h.shown
    /\ UNCHANGED <<evars, fvars, pvars, API_KEY>>

NextSubmit == NoCredential \/ Post \/ RequestFails \/ Respond

SpecSubmit == InitSubmit /\ [][NextSubmit]_vars

\* ------------------------------------------------------------------------
\* Claims about the submit handler (checked under SpecSubmit)
\* ------------------------------------------------------------------------

RECURSIVE Count(_, _)
\* How many times x occurs in the sequence q.
Count(q, x) == IF q = <<>> THEN 0
               ELSE (IF Head(q) = x THEN 1 ELSE 0) + Count(Tail(q), x)

Kinds == {reports[i].kind : i \in 1..Len(reports)}

\* C7: a run issues at most one HTTP request, and none without a credential;
\* after a non-200 response, a network error or a timeout it is not re-issued.
C7_AtMostOneRequest ==
    /\ Count(steps, "post") <= 1
    /\ (API_KEY = <<>> => Count(steps, "post") = 0)
    /\ (pc \in {"done", "stopped"} /\ API_KEY # <<>> => Count(steps, "post") = 1)

\* A run that ended on a failed request, issued once.
C7_Witness ==
    /\ pc = "done"
    /\ "network_error" \in Kinds
    /\ status_code = 0
    /\ Count(steps, "post") = 1

\* The body resolves choices[0].message.content.
ResolvesPrimary(data) ==
    /\ data.t = "dict" /\ CHOICES \in {data.keys[i] : i \in 1..Len(data.keys)}
    /\ LET ch == DictGet(data, CHOICES, JNull)
       IN /\ ch.t = "list" /\ ch.kids # <<>>
          /\ ch.kids[1].t = "dict"
          /\ MESSAGE \in {ch.kids[1].keys[i] : i \in 1..Len(ch.kids[1].keys)}
          /\ LET m == DictGet(ch.kids[1], MESSAGE, JNull)
             IN m.t = "dict" /\ CONTENT \in {m.keys[i] : i \in 1..Len(m.keys)}

\* The body resolves choices[0].messages[0].content.
ResolvesFallback(data) ==
    /\ data.t = "dict" /\ CHOICES \in {data.keys[i] : i \in 1..Len(data.keys)}
    /\ LET ch == DictGet(data, CHOICES, JNull)
       IN /\ ch.t = "list" /\ ch.kids # <<>>
          /\ ch.kids[1].t = "dict"
          /\ MESSAGES \in {ch.kids[1].keys[i] : i \in 1..Len(ch.kids[1].keys)}
          /\ LET ms == DictGet(ch.kids[1], MESSAGES, JNull)
             IN /\ ms.t = "list" /\ ms.kids # <<>>
                /\ ms.kids[1].t = "dict"
                /\ CONTENT \in {ms.kids[1].keys[i] : i \in 1..Len(ms.kids[1].keys)}

\* C9: on a 200 response whose JSON body resolves neither path, the content
\* defaults to the empty string and the run ends in the empty-result state
\* (the warning and the raw output), never in an error report.
C9_UnresolvedContentIsEmptyResult ==
    /\ pc \in {"done", "stopped"}
    /\ status_code = HTTP_OK
    /\ JsonLoads(resp_text).ok
    /\ ~ResolvesPrimary(JsonLoads(resp_text).val)
    /\ ~ResolvesFallback(JsonLoads(resp_text).val)
    => /\ content = JStr(<<>>)
       /\ reports = <<Report("warning", 0, <<>>)>>
       /\ shown = {"raw_json"}
       /\ pc = "stopped"

\* C10: on a non-success status the run is terminal: the one report is the
\* API error with the status code and the first 500 characters of the body at
\* most, and no parsing, extraction, table or export follows.
C10_ApiErrorTerminal ==
    /\ pc \in {"done", "stopped"}
    /\ status_code # 0
    /\ status_code \notin 200..299
    => /\ pc = "stopped"
       /\ Len(reports) = 1
       /\ reports[1].kind = "api_error"
       /\ reports[1].code = status_code
       /\ Len(reports[1].text) <= 500
       /\ Len(reports[1].text) <= Len(resp_text)
       /\ reports[1].text = SubSeq(resp_text, 1, Len(reports[1].text))
       /\ (Len(resp_text) <= 500 => reports[1].text = resp_text)
       /\ steps = <<"post">>
       /\ content = NoValue
       /\ rows = <<>>
       /\ shown = {}

\* A run stopped on a 401 whose body is longer than the excerpt.
C10_Witness ==
    /\ pc = "stopped"
    /\ status_code = 401
    /\ Len(resp_text) > EXCERPT_LEN
    /\ Len(reports) = 1
    /\ reports[1].kind = "api_error"

====
